---- MODULE Spec2Model ----
(***************************************************************************)
(* Shipment event tracker: the three Lambda handlers (recordEvent,         *)
(* getLatestEvent, getEventHistory), the DynamoDB service functions they   *)
(* call, and the table they share.  A request advances from one await to   *)
(* the next; the table is the only state shared between requests.          *)
(*                                                                         *)
(* Optional values (TypeScript `undefined`, an absent JSON field) are sets *)
(* of at most one element: None is absent, Some(x) is present.             *)
(* Text that the code inspects byte by byte (the pagination cursor) is a   *)
(* sequence of byte codes.  Time is counted in seconds.                    *)
(***************************************************************************)
EXTENDS Integers, Sequences, FiniteSets, TLC

VARIABLES
    store,      \* the items of the shipment-events table
    usedIds,    \* the uuids uuidv4() has handed out so far
    now,        \* the wall clock read by new Date()
    pc,         \* per request: the await it stands at
    op,         \* per request: which handler runs it
    args,       \* per request: the validated inputs of the handler
    local,      \* per request: the handler's local shipmentEvent
    resp,       \* per request: the APIGatewayProxyResult
    startedAfter, \* per request: the requests that had answered when it arrived
    queried,    \* per request: the partition as the store call saw it
    putItem,    \* per request: the item its PutCommand wrote
    caught,     \* per request: the value its catch block received
    sent,       \* per request: the commands it passed to docClient.send, in order
    profile,    \* which inputs and store outcomes the behaviour draws from
    subject,    \* a validator under test: its input and what it returned
    walk,       \* a client that pages through a shipment's history
    walkSent    \* the number of requests that client has sent

vars == <<store, usedIds, now, pc, op, args, local, resp, startedAfter, queried, putItem,
          caught, sent, profile, subject, walk, walkSent>>

----------------------------------------------------------------------------
(* Bounds of the model *)

MaxReqs == 2
MaxId == 8
MaxInitItems == 3
MaxTicks == 1

Reqs == 1..MaxReqs
Ids == 1..MaxId

----------------------------------------------------------------------------
(* Optional values *)

None == {}
Some(x) == {x}
The(m) == CHOOSE x \in m : TRUE
Truthy(m) == m # None /\ m # Some("")

Min(a, b) == IF a <= b THEN a ELSE b

----------------------------------------------------------------------------
(* src/models/event.ts *)

VALID_SHIPMENT_STATUSES ==
    { "created", "picked_up", "in_transit", "out_for_delivery", "delivered",
      "attempted_delivery", "exception", "returned", "cancelled", "on_hold" }

SHIPMENT_STATUS_DESCRIPTIONS(status) ==
    CASE status = "created" -> "Shipment has been created and registered in the system"
      [] status = "picked_up" -> "Package has been picked up from sender"
      [] status = "in_transit" -> "Package is in transit between facilities"
      [] status = "out_for_delivery" -> "Package is out for delivery to recipient"
      [] status = "delivered" -> "Package has been successfully delivered"
      [] status = "attempted_delivery" -> "Delivery was attempted but unsuccessful"
      [] status = "exception" -> "An exception occurred during processing"
      [] status = "returned" -> "Package is being returned to sender"
      [] status = "cancelled" -> "Shipment has been cancelled"
      [] status = "on_hold" -> "Shipment is temporarily on hold"

SHIPMENT_ID_MIN_LENGTH == 1
SHIPMENT_ID_MAX_LENGTH == 50
LOCATION_MAX_LENGTH == 200
DETAILS_MAX_LENGTH == 500
QUERY_LIMIT_MIN == 1
QUERY_LIMIT_MAX == 100
QUERY_LIMIT_DEFAULT == 50

----------------------------------------------------------------------------
(* Text as bytes.  A shipmentId is a sequence of ASCII codes; a uuid is     *)
(* modelled by a number, compared as DynamoDB compares the sort key, and    *)
(* written in a cursor as its decimal digits.                               *)

IsUpper(c) == c \in 65..90
IsLower(c) == c \in 97..122
IsDigit(c) == c \in 48..57

RECURSIVE Decimal(_)
Decimal(n) == IF n < 10 THEN <<48 + n>> ELSE Decimal(n \div 10) \o <<48 + (n % 10)>>

\* The characters of a text at positions from..to
Chars(text, from, to) == {text[i] : i \in from..to}

\* /^[A-Z]{2}\d{9}[A-Z]{2}$/
PatternUPU(t) ==
    /\ Len(t) = 13
    /\ \A c \in Chars(t, 1, 2) : IsUpper(c)
    /\ \A c \in Chars(t, 3, 11) : IsDigit(c)
    /\ \A c \in Chars(t, 12, 13) : IsUpper(c)

\* /^SHIP-\d{6,12}$/
PatternShip(t) ==
    /\ Len(t) \in 11..17
    /\ SubSeq(t, 1, 5) = <<83, 72, 73, 80, 45>>
    /\ \A c \in Chars(t, 6, Len(t)) : IsDigit(c)

\* A character class without the underscore
IsAlphanumericOrHyphen(c) == IsUpper(c) \/ IsLower(c) \/ IsDigit(c) \/ c = 45

IsGenericChar(c) == IsUpper(c) \/ IsLower(c) \/ IsDigit(c) \/ c = 45 \/ c = 95

\* /^[A-Z0-9-_]{5,50}$/i
PatternGeneric(t) ==
    /\ Len(t) \in 5..50
    /\ \A c \in Chars(t, 1, Len(t)) : IsGenericChar(c)

validateShipmentIdFormat(shipmentId) ==
    PatternUPU(shipmentId) \/ PatternShip(shipmentId) \/ PatternGeneric(shipmentId)

\* The bytes of the shipment ids the requests of the model carry.
Utf8(s) ==
    CASE s = "SHIP-100000" -> <<83, 72, 73, 80, 45, 49, 48, 48, 48, 48, 48>>
      [] s = "SHIP-200000" -> <<83, 72, 73, 80, 45, 50, 48, 48, 48, 48, 48>>
      [] s = "AB!" -> <<65, 66, 33>>
      [] s = "" -> <<>>

Shipments == {"SHIP-100000", "SHIP-200000"}

FromUtf8(bytes) ==
    IF \E s \in Shipments : Utf8(s) = bytes
    THEN Some(CHOOSE s \in Shipments : Utf8(s) = bytes)
    ELSE None

\* z.string().min(1).max(50).refine(validateShipmentIdFormat) on pathParameters
ShipmentIdSchema(shipmentId) ==
    /\ Len(shipmentId) >= SHIPMENT_ID_MIN_LENGTH
    /\ Len(shipmentId) <= SHIPMENT_ID_MAX_LENGTH
    /\ validateShipmentIdFormat(shipmentId)

\* ShipmentEventParamsSchema.safeParse(event.pathParameters)
ShipmentEventParamsSchema(pathParameters) ==
    /\ pathParameters # None
    /\ ShipmentIdSchema(Utf8(The(pathParameters)))

----------------------------------------------------------------------------
(* Time.  An ISO-8601 text is [epoch, frac, zone]: the instant it names in  *)
(* seconds, the number of fraction digits written, and its suffix ("Z", an  *)
(* offset such as "+01:00", or "garbage" for text that is no date at all).  *)

IsoText(epoch, frac) == [epoch |-> epoch, frac |-> frac, zone |-> "Z"]

\* Date.prototype.toISOString: always three fraction digits and Z
toISOString(date) == IsoText(date, 3)

\* new Date(text).getTime(); None is NaN
getTime(text) == IF text.zone = "garbage" THEN None ELSE Some(text.epoch)

\* z.string().datetime(): UTC only, any number of fraction digits
ZodDatetime(text) == text.zone = "Z"

FIVE_MINUTES == 5 * 60
ONE_YEAR == 365 * 24 * 60 * 60

\* A bounds test that lets every timestamp through
AnyTimestamp(timestamp, clock) == TRUE

\* A bounds test that excludes both of its bounds
validateEventTimestampExclusive(timestamp, clock) ==
    LET eventTime == getTime(timestamp)
    IN  /\ eventTime # None
        /\ The(eventTime) < clock + FIVE_MINUTES
        /\ The(eventTime) > clock - ONE_YEAR

validateEventTimestamp(timestamp, clock) ==
    LET eventTime == getTime(timestamp)
        maxFutureTime == clock + FIVE_MINUTES
        oneYear == clock - ONE_YEAR
    IN  /\ eventTime # None
        /\ The(eventTime) <= maxFutureTime
        /\ The(eventTime) >= oneYear

\* CreateEventSchema.safeParse(requestBody): the paths of the fields in error
CreateEventSchema(body) ==
    LET bad(field) ==
            CASE field = "timestamp" ->
                    body.timestamp = None \/ ~ZodDatetime(The(body.timestamp))
              [] field = "status" ->
                    body.status = None \/ The(body.status) \notin VALID_SHIPMENT_STATUSES
              [] field = "location" ->
                    body.location # None /\ Len(The(body.location)) > LOCATION_MAX_LENGTH
              [] field = "details" ->
                    body.details # None /\ Len(The(body.details)) > DETAILS_MAX_LENGTH
    IN  SelectSeq(<<"timestamp", "status", "location", "details">>, bad)

\* parseInt(val, 10) on the bytes of val: optional sign, then the leading
\* digits; None is NaN
RECURSIVE DigitsValue(_, _, _)
DigitsValue(t, i, acc) ==
    IF i > Len(t) \/ ~IsDigit(t[i]) THEN acc
    ELSE DigitsValue(t, i + 1, acc * 10 + (t[i] - 48))

parseInt(t) ==
    LET signed == Len(t) >= 1 /\ t[1] \in {43, 45}
        first == IF signed THEN 2 ELSE 1
    IN  IF first > Len(t) \/ ~IsDigit(t[first]) THEN None
        ELSE IF signed /\ t[1] = 45 THEN Some(0 - DigitsValue(t, first, 0))
        ELSE Some(DigitsValue(t, first, 0))

\* GetEventsQuerySchema.safeParse(queryStringParameters || {})
GetEventsQuerySchema(query) ==
    LET limit == IF query.limit # None /\ The(query.limit) # <<>>
                 THEN parseInt(The(query.limit))
                 ELSE Some(QUERY_LIMIT_DEFAULT)
        ok == /\ limit # None
              /\ The(limit) >= QUERY_LIMIT_MIN
              /\ The(limit) <= QUERY_LIMIT_MAX
    IN  [success |-> ok, limit |-> limit, startKey |-> query.startKey]

----------------------------------------------------------------------------
(* The pagination cursor: JSON.stringify of the store's key, then base64.   *)
(* A base64 text is the sequence of its characters' values: 0..63 for the   *)
(* alphabet and 64 for the padding "=".                                     *)

Key(shipmentId, id) == [shipmentId |-> shipmentId, id |-> id]

\* {"shipmentId":"<shipmentId>","id":<id>}: the id written as a number
JSONStringifyNumericId(key) ==
    <<123, 34, 115, 104, 105, 112, 109, 101, 110, 116, 73, 100, 34, 58, 34>>
    \o Utf8(key.shipmentId)
    \o <<34, 44, 34, 105, 100, 34, 58>>
    \o Decimal(key.id)
    \o <<125>>

\* {"shipmentId":"<shipmentId>","id":"<id>"}
JSONStringify(key) ==
    <<123, 34, 115, 104, 105, 112, 109, 101, 110, 116, 73, 100, 34, 58, 34>>
    \o Utf8(key.shipmentId)
    \o <<34, 44, 34, 105, 100, 34, 58, 34>>
    \o Decimal(key.id)
    \o <<34, 125>>

\* Buffer.from(bytes).toString('base64')
RECURSIVE Base64Encode(_)
Base64Encode(b) ==
    IF Len(b) = 0 THEN <<>>
    ELSE IF Len(b) = 1 THEN
        <<b[1] \div 4, (b[1] % 4) * 16, 64, 64>>
    ELSE IF Len(b) = 2 THEN
        <<b[1] \div 4, (b[1] % 4) * 16 + b[2] \div 16, (b[2] % 16) * 4, 64>>
    ELSE
        <<b[1] \div 4, (b[1] % 4) * 16 + b[2] \div 16,
          (b[2] % 16) * 4 + b[3] \div 64, b[3] % 64>>
        \o Base64Encode(SubSeq(b, 4, Len(b)))

\* Buffer.from(text, 'base64'): decoding stops at the padding; a trailing
\* group of two or three characters gives one or two bytes
RECURSIVE Base64Decode(_)
Base64Decode(c) ==
    IF Len(c) < 2 \/ c[1] = 64 \/ c[2] = 64 THEN <<>>
    ELSE IF Len(c) = 2 \/ c[3] = 64 THEN
        <<c[1] * 4 + c[2] \div 16>>
    ELSE IF Len(c) = 3 \/ c[4] = 64 THEN
        <<c[1] * 4 + c[2] \div 16, (c[2] % 16) * 16 + c[3] \div 4>>
    ELSE
        <<c[1] * 4 + c[2] \div 16, (c[2] % 16) * 16 + c[3] \div 4,
          (c[3] % 4) * 64 + c[4]>>
        \o Base64Decode(SubSeq(c, 5, Len(c)))

\* The index of the first quote at or after i, or 0
RECURSIVE QuoteFrom(_, _)
QuoteFrom(t, i) ==
    IF i > Len(t) THEN 0 ELSE IF t[i] = 34 THEN i ELSE QuoteFrom(t, i + 1)

RECURSIVE DecimalValue(_, _)
DecimalValue(t, acc) ==
    IF t = <<>> THEN acc ELSE DecimalValue(Tail(t), acc * 10 + (Head(t) - 48))

\* A parse that makes a key of whatever text it is given
JSONParseLenient(t) == Some(Key("SHIP-100000", 0))

\* JSON.parse of a cursor's text: Some(key) for an object of the two string
\* members shipmentId and id, None for a SyntaxError
JSONParse(t) ==
    LET open1 == <<123, 34, 115, 104, 105, 112, 109, 101, 110, 116, 73, 100, 34, 58, 34>>
        open2 == <<44, 34, 105, 100, 34, 58, 34>>
        v1 == Len(open1) + 1
        q1 == QuoteFrom(t, v1)
        v2 == q1 + Len(open2) + 1
        q2 == QuoteFrom(t, v2)
        shipmentId == FromUtf8(SubSeq(t, v1, q1 - 1))
        idText == SubSeq(t, v2, q2 - 1)
    IN  IF /\ Len(t) > Len(open1)
           /\ SubSeq(t, 1, Len(open1)) = open1
           /\ q1 > 0
           /\ SubSeq(t, q1 + 1, q1 + Len(open2)) = open2
           /\ q2 > v2
           /\ Len(t) = q2 + 1
           /\ t[q2 + 1] = 125
           /\ shipmentId # None
           /\ \A c \in Chars(idText, 1, Len(idText)) : IsDigit(c)
        THEN Some(Key(The(shipmentId), DecimalValue(idText, 0)))
        ELSE None

----------------------------------------------------------------------------
(* src/utils/response.ts.  The body is the value JSON.stringify writes: a   *)
(* member that is undefined is absent from the text.                        *)

OK == 200
CREATED == 201
BAD_REQUEST == 400
NOT_FOUND == 404
CONFLICT == 409
INTERNAL_SERVER_ERROR == 500
SERVICE_UNAVAILABLE == 503

createResponse(statusCode, body) == [statusCode |-> statusCode, body |-> body]

successResponse(data, message, statusCode) ==
    createResponse(statusCode,
        [success |-> TRUE, data |-> Some(data), error |-> None,
         message |-> IF Truthy(message) THEN message ELSE None,
         pagination |-> None])

\* A page envelope that leaves the nextKey out
PaginatedWithoutNextKey(data, hasMore, nextKey, message) ==
    createResponse(OK,
        [success |-> TRUE, data |-> Some(data), error |-> None,
         message |-> IF Truthy(message) THEN message ELSE None,
         pagination |-> Some([hasMore |-> hasMore, nextKey |-> None])])

paginatedResponse(data, hasMore, nextKey, message) ==
    createResponse(OK,
        [success |-> TRUE, data |-> Some(data), error |-> None,
         message |-> IF Truthy(message) THEN message ELSE None,
         pagination |-> Some([hasMore |-> hasMore,
                              nextKey |-> IF nextKey # None /\ The(nextKey) # <<>>
                                          THEN nextKey ELSE None])])

\* An error envelope that carries a data member as well
ErrorResponseWithData(error, statusCode) ==
    createResponse(statusCode,
        [success |-> FALSE, data |-> Some("null"), error |-> Some(error),
         message |-> None, pagination |-> None])

errorResponse(error, statusCode) ==
    createResponse(statusCode,
        [success |-> FALSE, data |-> None, error |-> Some(error),
         message |-> None, pagination |-> None])

\* errors.join(', ')
RECURSIVE Join(_)
Join(errors) ==
    IF errors = <<>> THEN ""
    ELSE IF Len(errors) = 1 THEN errors[1]
    ELSE errors[1] \o ", " \o Join(Tail(errors))

validationErrorResponse(errors) ==
    createResponse(BAD_REQUEST,
        [success |-> FALSE, data |-> None, error |-> Some("Validation failed"),
         message |-> Some(Join(errors)), pagination |-> None])

----------------------------------------------------------------------------
(* The shipment-events table: partition key shipmentId, sort key id.        *)

KeyOf(item) == Key(item.shipmentId, item.id)

\* A key condition that lets the items of every shipment through
PartitionOfAll(table, shipmentId) == table

Partition(table, shipmentId) == {i \in table : i.shipmentId = shipmentId}

\* The items of a set in ascending order of the sort key
RECURSIVE BySortKey(_)
BySortKey(items) ==
    IF items = {} THEN <<>>
    ELSE LET first == CHOOSE i \in items : \A j \in items : i.id <= j.id
         IN  <<first>> \o BySortKey(items \ {first})

\* FilterExpression '#status = :status AND #timestamp = :timestamp', or none
Passes(item, FilterExpression) ==
    \/ FilterExpression = None
    \/ /\ item.status = The(FilterExpression).status
       /\ item.timestamp = The(FilterExpression).timestamp

\* QueryCommand on one partition.  DynamoDB reads the partition in ascending
\* order of the sort key from just after ExclusiveStartKey, stops after Limit
\* items, applies the filter to the items it read, and returns
\* LastEvaluatedKey when it stopped at the limit.
\* A read that starts at ExclusiveStartKey, not after it
AfterInclusive(items, ExclusiveStartKey) ==
    {i \in items : ExclusiveStartKey = None \/ i.id >= The(ExclusiveStartKey).id}

\* A read that leaves out the first item after the start key
AfterSkippingOne(items, ExclusiveStartKey) ==
    {i \in items :
        \/ ExclusiveStartKey = None
        \/ \E j \in items : The(ExclusiveStartKey).id < j.id /\ j.id < i.id}

\* A read that starts at the head of the partition whatever the start key
AfterIgnoringStart(items, ExclusiveStartKey) == items

After(items, ExclusiveStartKey) ==
    {i \in items : ExclusiveStartKey = None \/ i.id > The(ExclusiveStartKey).id}

\* A query that reads the items of every shipment
QueryAnyShipment(table, shipmentId, ExclusiveStartKey, Limit, FilterExpression) ==
    LET Filter(i) == Passes(i, FilterExpression)
        ordered == BySortKey(After(table, ExclusiveStartKey))
        evaluated == SubSeq(ordered, 1, Min(Limit, Len(ordered)))
    IN  [Items |-> SelectSeq(evaluated, Filter),
         LastEvaluatedKey |->
            IF Len(evaluated) = Limit /\ Limit > 0
            THEN Some(KeyOf(evaluated[Len(evaluated)]))
            ELSE None]

Query(table, shipmentId, ExclusiveStartKey, Limit, FilterExpression) ==
    LET Filter(i) == Passes(i, FilterExpression)
        ordered == BySortKey(After(Partition(table, shipmentId), ExclusiveStartKey))
        evaluated == SubSeq(ordered, 1, Min(Limit, Len(ordered)))
    IN  [Items |-> SelectSeq(evaluated, Filter),
         LastEvaluatedKey |->
            IF Len(evaluated) = Limit /\ Limit > 0
            THEN Some(KeyOf(evaluated[Len(evaluated)]))
            ELSE None]

\* A put that gives way to an item of the same shipment, status and timestamp
PutUnlessTriple(table, Item) ==
    IF \E i \in table : /\ i.shipmentId = Item.shipmentId
                        /\ i.status = Item.status
                        /\ i.timestamp = Item.timestamp
    THEN table ELSE table \cup {Item}

\* A put under the partition key alone
PutOnePerShipment(table, Item) ==
    {i \in table : i.shipmentId # Item.shipmentId} \cup {Item}

\* PutCommand: the item replaces whatever is stored under its key
\* A put that replaces the item of the shipment with the lowest sort key
PutOverFirst(table, Item) ==
    LET events == Partition(table, Item.shipmentId)
        first == CHOOSE i \in events : \A j \in events : i.id <= j.id
    IN  IF events = {} THEN table \cup {Item}
        ELSE (table \ {first}) \cup {Item}

Put(table, Item) ==
    {i \in table : KeyOf(i) # KeyOf(Item)} \cup {Item}

\* What docClient.send can reject with
ErrorSaying(name, message) == [isError |-> TRUE, name |-> name, message |-> message]
Error(name) == ErrorSaying(name, "Requested resource not found")

\* The names the catch blocks tell apart, one name with two messages, a name
\* they do not know, and a thrown value that is no Error
StoreFaults ==
    { Error("ResourceNotFoundException"), Error("ValidationException"),
      ErrorSaying("ValidationException", "The provided starting key is invalid"),
      Error("ConditionalCheckFailedException"), Error("InternalServerError"),
      [isError |-> FALSE, name |-> "thrown string", message |-> "thrown string"] }

Faults == {None} \cup {Some(f) : f \in StoreFaults}

FaultInputs(p) == IF p = "failing" THEN Faults ELSE {None}

Return(value) == [threw |-> None, value |-> Some(value)]
Throw(error) == [threw |-> Some(error), value |-> None]

----------------------------------------------------------------------------
(* src/services/aws.dynamo.service.ts *)

\* An existence check that reports no match whatever the table holds
NoMatchReported(table, shipmentId, status, timestamp, fault) ==
    IF fault # None THEN Throw(The(fault))
    ELSE Return([exists |-> FALSE, existingEvent |-> None])

shippmentEventExist(table, shipmentId, status, timestamp, fault) ==
    LET result == Query(table, shipmentId, None, 1,
                        Some([status |-> status, timestamp |-> timestamp]))
    IN  IF fault # None THEN Throw(The(fault))
        ELSE Return([exists |-> Len(result.Items) > 0,
                     existingEvent |-> IF Len(result.Items) > 0
                                       THEN Some(result.Items[1]) ELSE None])

\* The item createEvent builds: its own uuid and its own createdAt
createEvent(shipmentId, eventData, uuid, date) ==
    [id |-> uuid,
     shipmentId |-> shipmentId,
     timestamp |-> eventData.timestamp,
     status |-> eventData.status,
     location |-> eventData.location,
     details |-> eventData.details,
     createdAt |-> toISOString(date)]

\* No sort: the events as the query returned them
Unsorted(events, descending) == events

\* Array.prototype.sort with (a, b) => time(a) - time(b), or the reverse: a
\* stable sort
RECURSIVE SortByTime(_, _)
SortByTime(events, descending) ==
    IF Len(events) <= 1 THEN events
    ELSE LET init == SortByTime(SubSeq(events, 1, Len(events) - 1), descending)
             x == events[Len(events)]
             compare(a, b) ==
                IF descending
                THEN The(getTime(b.timestamp)) - The(getTime(a.timestamp))
                ELSE The(getTime(a.timestamp)) - The(getTime(b.timestamp))
             k == Cardinality({j \in 1..Len(init) : compare(init[j], x) <= 0})
         IN  SubSeq(init, 1, k) \o <<x>> \o SubSeq(init, k + 1, Len(init))

getEventHistory(table, shipmentId, limit, startKey, fault) ==
    LET given == startKey # None /\ The(startKey) # <<>>
        parsed == IF given THEN JSONParse(Base64Decode(The(startKey))) ELSE None
        result == Query(table, shipmentId, parsed, limit, None)
        sortedEvents == SortByTime(result.Items, FALSE)
    IN  IF given /\ parsed = None THEN Throw(Error("SyntaxError"))
        ELSE IF fault # None THEN Throw(The(fault))
        ELSE IF given /\ The(parsed).shipmentId # shipmentId
        THEN Throw(Error("ValidationException"))
        ELSE Return([events |-> sortedEvents,
                     hasMore |-> result.LastEvaluatedKey # None,
                     nextKey |->
                        IF result.LastEvaluatedKey # None
                        THEN Some(Base64Encode(JSONStringify(The(result.LastEvaluatedKey))))
                        ELSE None])

\* A getLatestEvent that finds no event in any partition
getLatestEventOfNone(table, shipmentId, fault) ==
    IF fault # None THEN Throw(The(fault)) ELSE Return(None)

\* A latest event picked among the events that share the greatest timestamp
\* by the order of arrival of the call: the lowest id for the first request
\* served, the highest id afterwards
getLatestEventByArrival(table, shipmentId, fault) ==
    LET events == Partition(table, shipmentId)
        latest == {e \in events : \A f \in events :
                      The(getTime(f.timestamp)) <= The(getTime(e.timestamp))}
        lowest == CHOOSE e \in latest : \A f \in latest : e.id <= f.id
        highest == CHOOSE e \in latest : \A f \in latest : e.id >= f.id
    IN  IF fault # None THEN Throw(The(fault))
        ELSE Return(IF events = {} THEN None
                    ELSE IF \A r \in Reqs : pc[r] # "done" THEN Some(lowest)
                    ELSE Some(highest))

getLatestEvent(table, shipmentId, fault) ==
    LET result == Query(table, shipmentId, None, 1, None)
        sortedEvents == SortByTime(result.Items, TRUE)
    IN  IF fault # None THEN Throw(The(fault))
        ELSE Return(IF Len(sortedEvents) > 0 THEN Some(sortedEvents[1]) ELSE None)

----------------------------------------------------------------------------
(* The inputs the requests of the model carry.  A behaviour runs under one  *)
(* of two profiles: "healthy", where requests of many shapes pass           *)
(* validation and every store call succeeds, and "failing", where requests  *)
(* of few shapes, invalid ones among them, meet store calls that can fail.  *)

NowStart == 1748253600

T1 == NowStart - 7200
T2 == NowStart - 3600

ValidTimestamps == {IsoText(T1, 3), IsoText(T2, 3)}

NoExtras == [location |-> None, details |-> None]

\* status, location and details, as a request carries them: each status with
\* neither location nor details, one with empty details, one with both
StatusAndExtrasInputs ==
    { [status |-> "created", extras |-> NoExtras],
      [status |-> "delivered", extras |-> NoExtras],
      [status |-> "created",
       extras |-> [location |-> Some("Stockholm, Sweden"), details |-> Some("")]],
      [status |-> "delivered",
       extras |-> [location |-> Some("Stockholm, Sweden"),
                   details |-> Some("Left at the door")]] }

ObjectBody(t, s, e) ==
    [kind |-> "object",
     fields |-> Some([timestamp |-> t, status |-> s,
                      location |-> e.location, details |-> e.details])]

ValidBodies ==
    {ObjectBody(Some(t), Some(se.status), se.extras) :
        t \in ValidTimestamps, se \in StatusAndExtrasInputs}

\* A location of 201 characters and details of 501
Ten == "0123456789"
Hundred == Ten \o Ten \o Ten \o Ten \o Ten \o Ten \o Ten \o Ten \o Ten \o Ten
TooLong ==
    [location |-> Some(Hundred \o Hundred \o "x"),
     details |-> Some(Hundred \o Hundred \o Hundred \o Hundred \o Hundred \o "x")]

\* event.body that validation turns away: null, text that is not JSON, an
\* object with a field missing or malformed, a timestamp too far ahead
InvalidBodies ==
    { [kind |-> "null", fields |-> None],
      [kind |-> "not json", fields |-> None],
      ObjectBody(None, Some("created"), NoExtras),
      ObjectBody(Some([epoch |-> T1, frac |-> 3, zone |-> "+01:00"]), Some("created"), NoExtras),
      ObjectBody(Some(IsoText(T1, 3)), Some("teleported"), NoExtras),
      ObjectBody(None, Some("teleported"), NoExtras),
      ObjectBody(Some(IsoText(T1, 3)), Some("created"), TooLong),
      ObjectBody(Some(IsoText(NowStart + FIVE_MINUTES + MaxTicks + 1, 3)), Some("created"), NoExtras) }

OneValidBody == ObjectBody(Some(IsoText(T1, 3)), Some("created"), NoExtras)

InvalidPathParameters == {None, Some("AB!"), Some("")}

RecordEventInputs(p) ==
    IF p = "healthy"
    THEN {[pathParameters |-> Some("SHIP-100000"), body |-> b] : b \in ValidBodies}
         \cup {[pathParameters |-> Some("SHIP-200000"),
                 body |-> ObjectBody(Some(t), Some("created"), NoExtras)] :
                    t \in ValidTimestamps}
    ELSE IF p = "traversal"
    THEN {[pathParameters |-> Some("SHIP-100000"),
           body |-> ObjectBody(Some(IsoText(T2, 3)), Some("delivered"),
                               [location |-> Some("Stockholm, Sweden"), details |-> None])],
          [pathParameters |-> Some("SHIP-200000"), body |-> OneValidBody]}
    ELSE {[pathParameters |-> Some("SHIP-100000"), body |-> b] :
                b \in InvalidBodies \cup {OneValidBody}}
         \cup {[pathParameters |-> q, body |-> OneValidBody] : q \in InvalidPathParameters}
         \cup {[pathParameters |-> Some("AB!"),
                 body |-> ObjectBody(Some(IsoText(T1, 3)), Some("teleported"), NoExtras)]}

GetLatestEventInputs(p) ==
    IF p = "healthy"
    THEN {Some(s) : s \in Shipments}
    ELSE InvalidPathParameters \cup {Some("SHIP-100000")}

\* The cursors earlier pages handed out: one for each stored item
Cursors(table) == {Some(Base64Encode(JSONStringify(KeyOf(i)))) : i \in table}

\* "1", "2"; "0", "101", "abc"
ValidLimits == {None, Some(<<49>>), Some(<<50>>)}
InvalidLimits == {Some(<<48>>), Some(<<49, 48, 49>>), Some(<<97, 98, 99>>)}

Query3(path, limit, startKey) ==
    [pathParameters |-> path, query |-> [limit |-> limit, startKey |-> startKey]]

GetEventHistoryInputs(p, table) ==
    IF p = "healthy"
    THEN {Query3(Some(s), l, k) :
            s \in Shipments, l \in ValidLimits, k \in {None, Some(<<>>)} \cup Cursors(table)}
    ELSE {Query3(Some("SHIP-100000"), Some(<<50>>), k) :
            k \in {None, Some(<<>>), Some(<<0, 0, 0, 0>>)} \cup Cursors(table)}
         \cup {Query3(Some("SHIP-100000"), l, None) : l \in InvalidLimits}
         \cup {Query3(q, None, None) : q \in InvalidPathParameters}
         \cup {Query3(Some("AB!"), Some(<<48>>), None)}

----------------------------------------------------------------------------
(* The handlers *)

\* parseJSON(event.body)
parseJSON(body) == IF body.kind = "object" THEN body.fields ELSE None

ZodMessage(field, fields) ==
    CASE field = "timestamp" ->
            IF fields.timestamp = None THEN "Required"
            ELSE "Timestamp must be in ISO 8601 format"
      [] field = "status" ->
            "Status must be one of: created, picked_up, in_transit, out_for_delivery, "
            \o "delivered, attempted_delivery, exception, returned, cancelled, on_hold"
      [] field = "location" -> "Location must be less than 200 characters"
      [] field = "details" -> "Details must be less than 500 characters"

RECURSIVE ErrorTexts(_, _)
ErrorTexts(paths, fields) ==
    IF paths = <<>> THEN <<>>
    ELSE <<Head(paths) \o ": " \o ZodMessage(Head(paths), fields)>>
         \o ErrorTexts(Tail(paths), fields)

\* recordEvent, from its entry to the first store call: the response of a
\* request it turns away, or None
RecordEventValidation(pathParameters, body, clock) ==
    LET requestBody == parseJSON(body)
        errors == CreateEventSchema(The(requestBody))
    IN  IF ~ShipmentEventParamsSchema(pathParameters)
        THEN Some(validationErrorResponse(<<"Invalid shipment ID">>))
        ELSE IF body.kind = "null"
        THEN Some(errorResponse("Request body is required", BAD_REQUEST))
        ELSE IF requestBody = None
        THEN Some(errorResponse("Invalid JSON in request body", BAD_REQUEST))
        ELSE IF errors # <<>>
        THEN Some(validationErrorResponse(ErrorTexts(errors, The(requestBody))))
        ELSE IF ~validateEventTimestamp(The(The(requestBody).timestamp), clock)
        THEN Some(errorResponse("Event timestamp cannot be in the future", BAD_REQUEST))
        ELSE None

\* A catch block that swallows what it caught and answers 200
SwallowedError(error) == successResponse(error.name, None, OK)

\* recordEvent's catch block
\* A catch block that takes every failure for a conflict
CatchAlwaysConflict(error) == errorResponse("Event with this ID already exists", CONFLICT)

RecordEventCatch(error) ==
    IF error.isError /\ error.name = "ConditionalCheckFailedException"
    THEN errorResponse("Event with this ID already exists", CONFLICT)
    ELSE IF error.isError /\ error.name = "ValidationException"
    THEN errorResponse("Invalid data format", BAD_REQUEST)
    ELSE errorResponse("Internal server error occurred while creating event",
                       INTERNAL_SERVER_ERROR)

\* The shipmentEvent recordEvent builds and answers with
ShipmentEventOf(shipmentId, fields, uuid, date) ==
    [id |-> uuid,
     shipmentId |-> shipmentId,
     timestamp |-> The(fields.timestamp),
     status |-> The(fields.status),
     location |-> fields.location,
     details |-> IF Truthy(fields.details) THEN fields.details
                 ELSE Some(SHIPMENT_STATUS_DESCRIPTIONS(The(fields.status))),
     createdAt |-> toISOString(date)]

\* getLatestEvent's and getEventHistory's catch blocks
\* A catch block that answers with the message of what it caught
CatchTellingMessage(error) == errorResponse(error.message, INTERNAL_SERVER_ERROR)

GetLatestEventCatch(error) ==
    IF error.isError /\ error.name = "ResourceNotFoundException"
    THEN errorResponse("Events table not found", SERVICE_UNAVAILABLE)
    ELSE IF error.isError /\ error.name = "ValidationException"
    THEN errorResponse("Invalid shipment ID format", BAD_REQUEST)
    ELSE errorResponse("Internal server error occurred while retrieving latest event",
                       INTERNAL_SERVER_ERROR)

\* A catch block that answers 500 whatever it caught
AlwaysInternalError(error) ==
    errorResponse("Internal server error occurred while retrieving event history",
                  INTERNAL_SERVER_ERROR)

GetEventHistoryCatch(error) ==
    IF error.isError /\ error.name = "ResourceNotFoundException"
    THEN errorResponse("Events table not found", SERVICE_UNAVAILABLE)
    ELSE IF error.isError /\ error.name = "ValidationException"
    THEN errorResponse("Invalid shipment ID or query parameters", BAD_REQUEST)
    ELSE errorResponse("Internal server error occurred while retrieving event history",
                       INTERNAL_SERVER_ERROR)

\* The getLatestEvent handler, whole
GetLatestEventHandler(table, pathParameters, fault) ==
    LET shipmentId == The(pathParameters)
        latestEvent == getLatestEvent(table, shipmentId, fault)
    IN  IF ~ShipmentEventParamsSchema(pathParameters)
        THEN validationErrorResponse(<<"Invalid shipment ID">>)
        ELSE IF latestEvent.threw # None
        THEN GetLatestEventCatch(The(latestEvent.threw))
        ELSE IF The(latestEvent.value) = None
        THEN errorResponse("No events found for shipment " \o shipmentId, NOT_FOUND)
        ELSE successResponse(The(The(latestEvent.value)),
                             Some("Latest event retrieved successfully"), OK)

\* A later page that came back empty, where the handler answers 404 all the same
NotFoundWhenEmpty(events, startKey) == Len(events) = 0

\* result.events.length === 0 && !startKey
NotFound(events, startKey) ==
    Len(events) = 0 /\ ~(startKey # None /\ The(startKey) # <<>>)

\* The getEventHistory handler, whole
GetEventHistoryHandler(table, pathParameters, queryStringParameters, fault) ==
    LET shipmentId == The(pathParameters)
        queryResult == GetEventsQuerySchema(queryStringParameters)
        limit == The(queryResult.limit)
        startKey == queryResult.startKey
        called == getEventHistory(table, shipmentId, limit, startKey, fault)
        result == The(called.value)
    IN  IF ~ShipmentEventParamsSchema(pathParameters)
        THEN validationErrorResponse(<<"Invalid shipment ID">>)
        ELSE IF ~queryResult.success
        THEN validationErrorResponse(<<"limit: Limit must be between 1 and 100">>)
        ELSE IF called.threw # None
        THEN GetEventHistoryCatch(The(called.threw))
        ELSE IF NotFound(result.events, startKey)
        THEN errorResponse("No events found for shipment " \o shipmentId, NOT_FOUND)
        ELSE paginatedResponse(result.events, result.hasMore, result.nextKey,
                Some("Retrieved " \o ToString(Len(result.events))
                     \o " events for shipment " \o shipmentId))

----------------------------------------------------------------------------
(* The state machine *)

\* No client is paging while the handlers or the validators are looked at
NoWalk == [shipmentId |-> "", limit |-> None, startKey |-> None, last |-> None,
           before |-> None, once |-> {}, again |-> {}]

\* No validator is under test while the handlers run
NoSubject == [fn |-> "none", input |-> None, clock |-> 0, output |-> None]

NoBody == [kind |-> "null", fields |-> None]
NoQuery == [limit |-> None, startKey |-> None]
NoArgs == [pathParameters |-> None, body |-> NoBody, query |-> NoQuery]

Done == {r \in Reqs : pc[r] = "done"}

\* One docClient.send(command), and whether its promise was rejected
Send(command, fault) == [command |-> command, rejected |-> fault # None]

\* Requests are numbered in the order they arrive
Arrives(r) == pc[r] = "idle" /\ \A q \in 1..(r - 1) : pc[q] # "idle"

\* uuidv4() returns an id it never returned before.  The id drawn in the
\* handler: the largest unused one
HandlerUuid(used) ==
    IF Ids \ used = {} THEN 0
    ELSE CHOOSE i \in Ids \ used : \A j \in Ids \ used : j <= i

\* An item that an earlier, completed write request left in the table
StoredBefore(id, shipmentId, timestamp, status) ==
    [id |-> id,
     shipmentId |-> shipmentId,
     timestamp |-> timestamp,
     status |-> status,
     location |-> None,
     details |-> Some(SHIPMENT_STATUS_DESCRIPTIONS(status)),
     createdAt |-> toISOString(NowStart - 1)]

\* The uuids earlier requests drew and did not store, when they stored n
\* items: what is left unused is one id in each gap between the stored ones,
\* one before them, and the largest ones
DrawnBefore(n) == {i \in Ids : i > 2 * n + 1 /\ i <= MaxId - MaxReqs}

\* The table holds what earlier requests wrote: up to MaxInitItems events of
\* one shipment, under the even ids, so that a new uuid can sort before,
\* between or after them
Init ==
    /\ \E n \in 0..MaxInitItems :
        \E time \in [1..n -> ValidTimestamps] :
            store = {StoredBefore(2 * j, "SHIP-100000", time[j], "created") : j \in 1..n}
    /\ usedIds = {i.id : i \in store} \cup DrawnBefore(Cardinality(store))
    /\ now = NowStart
    /\ pc = [r \in Reqs |-> "idle"]
    /\ op = [r \in Reqs |-> "none"]
    /\ args = [r \in Reqs |-> NoArgs]
    /\ local = [r \in Reqs |-> None]
    /\ resp = [r \in Reqs |-> None]
    /\ startedAfter = [r \in Reqs |-> {}]
    /\ queried = [r \in Reqs |-> None]
    /\ putItem = [r \in Reqs |-> None]
    /\ caught = [r \in Reqs |-> None]
    /\ sent = [r \in Reqs |-> <<>>]
    /\ profile \in {"healthy", "failing"}
    /\ subject = NoSubject
    /\ walk = NoWalk
    /\ walkSent = 0

\* A handler that goes on to the put whatever the existence check found
DuplicateIgnored(check) == FALSE

\* if (checkforDuplicateEvent.exists)
DuplicateFound(check) == The(check.value).exists

\* recordEvent up to its await of createEvent: validation, the existence
\* query, the 409 answer or the shipmentEvent it will answer with
RecordEvent(r) ==
    /\ Arrives(r)
    /\ \E in \in RecordEventInputs(profile), fault \in FaultInputs(profile) :
        LET rejected == RecordEventValidation(in.pathParameters, in.body, now)
            shipmentId == The(in.pathParameters)
            fields == The(in.body.fields)
            check == shippmentEventExist(store, shipmentId, The(fields.status),
                                         The(fields.timestamp), fault)
            proceeds == /\ rejected = None
                        /\ check.threw = None
                        /\ ~DuplicateFound(check)
            uuid == HandlerUuid(usedIds)
        IN  /\ proceeds => Ids \ usedIds # {}
            /\ rejected # None => fault = None
            /\ op' = [op EXCEPT ![r] = "recordEvent"]
            /\ args' = [args EXCEPT ![r] = [pathParameters |-> in.pathParameters,
                                            body |-> in.body, query |-> NoQuery]]
            /\ startedAfter' = [startedAfter EXCEPT ![r] = Done]
            /\ queried' = [queried EXCEPT ![r] =
                            IF rejected = None /\ check.threw = None
                            THEN Some(Partition(store, shipmentId)) ELSE None]
            /\ usedIds' = IF proceeds THEN usedIds \cup {uuid} ELSE usedIds
            /\ local' = [local EXCEPT ![r] =
                            IF proceeds
                            THEN Some(ShipmentEventOf(shipmentId, fields, uuid, now))
                            ELSE None]
            /\ pc' = [pc EXCEPT ![r] = IF proceeds THEN "create" ELSE "done"]
            /\ resp' = [resp EXCEPT ![r] =
                            IF rejected # None THEN rejected
                            ELSE IF check.threw # None
                            THEN Some(RecordEventCatch(The(check.threw)))
                            ELSE IF DuplicateFound(check)
                            THEN Some(errorResponse(
                                "Event with this shipment ID, status and timestamp already exists",
                                CONFLICT))
                            ELSE None]
            /\ caught' = [caught EXCEPT ![r] =
                            IF rejected = None THEN check.threw ELSE None]
            /\ sent' = [sent EXCEPT ![r] =
                            IF rejected = None THEN <<Send("Query", fault)>> ELSE <<>>]
    /\ UNCHANGED <<store, now, putItem, profile, subject, walk, walkSent>>

\* recordEvent from createEvent to its answer: the put and the 201
RecordEventPut(r) ==
    /\ pc[r] = "create"
    /\ \E fault \in FaultInputs(profile) :
        \E uuid \in (IF fault = None THEN Ids \ usedIds ELSE {0}) :
        LET shipmentEvent == The(local[r])
            event == createEvent(shipmentEvent.shipmentId, shipmentEvent, uuid, now)
        IN  /\ usedIds' = IF fault = None THEN usedIds \cup {uuid} ELSE usedIds
            /\ store' = IF fault = None THEN Put(store, event) ELSE store
            /\ putItem' = [putItem EXCEPT ![r] = IF fault = None THEN Some(event) ELSE None]
            /\ resp' = [resp EXCEPT ![r] =
                            IF fault # None THEN Some(RecordEventCatch(The(fault)))
                            ELSE Some(successResponse(shipmentEvent,
                                        Some("Event created successfully"), CREATED))]
            /\ caught' = [caught EXCEPT ![r] = fault]
            /\ sent' = [sent EXCEPT ![r] = Append(sent[r], Send("Put", fault))]
    /\ pc' = [pc EXCEPT ![r] = "done"]
    /\ UNCHANGED <<now, op, args, local, startedAfter, queried, profile, subject,
                   walk, walkSent>>

GetLatestEvent(r) ==
    /\ Arrives(r)
    /\ \E p \in GetLatestEventInputs(profile), fault \in FaultInputs(profile) :
        LET valid == ShipmentEventParamsSchema(p)
            threw == IF valid THEN getLatestEvent(store, The(p), fault).threw ELSE None
        IN  /\ ~valid => fault = None
            /\ op' = [op EXCEPT ![r] = "getLatestEvent"]
            /\ args' = [args EXCEPT ![r] = [pathParameters |-> p, body |-> NoBody,
                                            query |-> NoQuery]]
            /\ queried' = [queried EXCEPT ![r] =
                            IF valid /\ threw = None
                            THEN Some(Partition(store, The(p))) ELSE None]
            /\ resp' = [resp EXCEPT ![r] = Some(GetLatestEventHandler(store, p, fault))]
            /\ caught' = [caught EXCEPT ![r] = threw]
            /\ sent' = [sent EXCEPT ![r] =
                            IF valid THEN <<Send("Query", fault)>> ELSE <<>>]
    /\ startedAfter' = [startedAfter EXCEPT ![r] = Done]
    /\ pc' = [pc EXCEPT ![r] = "done"]
    /\ UNCHANGED <<store, usedIds, now, local, putItem, profile,
                   subject, walk, walkSent>>

GetEventHistory(r) ==
    /\ Arrives(r)
    /\ \E in \in GetEventHistoryInputs(profile, store), fault \in FaultInputs(profile) :
        LET parsed == GetEventsQuerySchema(in.query)
            valid == ShipmentEventParamsSchema(in.pathParameters) /\ parsed.success
            threw == IF valid
                     THEN getEventHistory(store, The(in.pathParameters), The(parsed.limit),
                                          parsed.startKey, fault).threw
                     ELSE None
        IN  /\ ~valid => fault = None
            /\ op' = [op EXCEPT ![r] = "getEventHistory"]
            /\ args' = [args EXCEPT ![r] = [pathParameters |-> in.pathParameters,
                                            body |-> NoBody, query |-> in.query]]
            /\ queried' = [queried EXCEPT ![r] =
                            IF valid /\ threw = None
                            THEN Some(Partition(store, The(in.pathParameters))) ELSE None]
            /\ resp' = [resp EXCEPT ![r] =
                            Some(GetEventHistoryHandler(store, in.pathParameters, in.query,
                                                        fault))]
            /\ caught' = [caught EXCEPT ![r] = threw]
            /\ sent' = [sent EXCEPT ![r] =
                            IF valid /\ threw # Some(Error("SyntaxError"))
                            THEN <<Send("Query", threw)>> ELSE <<>>]
    /\ startedAfter' = [startedAfter EXCEPT ![r] = Done]
    /\ pc' = [pc EXCEPT ![r] = "done"]
    /\ UNCHANGED <<store, usedIds, now, local, putItem, profile,
                   subject, walk, walkSent>>

\* Time passes.  A write reads the clock on either side of its await of
\* createEvent; the model lets the clock advance only while a write waits
\* there, where the two readings can come to differ.
Tick ==
    /\ now < NowStart + MaxTicks
    /\ \E r \in Reqs : pc[r] = "create"
    /\ now' = now + 1
    /\ UNCHANGED <<store, usedIds, pc, op, args, local, resp, startedAfter, queried,
                   putItem, caught, sent, profile, subject, walk, walkSent>>

Next ==
    \/ \E r \in Reqs : RecordEvent(r)
    \/ \E r \in Reqs : RecordEventPut(r)
    \/ \E r \in Reqs : GetLatestEvent(r)
    \/ \E r \in Reqs : GetEventHistory(r)
    \/ Tick

Spec == Init /\ [][Next]_vars

----------------------------------------------------------------------------
(* The validators on their own.  A behaviour draws one input for one of     *)
(* the validators and applies the validator to it; no handler runs.         *)

Repeat(c, n) == [i \in 1..n |-> c]

\* limit texts: absent, "", "0", "1", "2", "50", "100", "101", "-1", "+3",
\* "007", "abc", "2.5", "5abc", "1e2", "100.9", "0.5"
LimitTexts ==
    {None, Some(<<>>), Some(<<48>>), Some(<<49>>), Some(<<50>>), Some(<<53, 48>>),
     Some(<<49, 48, 48>>), Some(<<49, 48, 49>>), Some(<<45, 49>>), Some(<<43, 51>>),
     Some(<<48, 48, 55>>), Some(<<97, 98, 99>>), Some(<<50, 46, 53>>),
     Some(<<53, 97, 98, 99>>), Some(<<49, 101, 50>>), Some(<<49, 48, 48, 46, 57>>),
     Some(<<48, 46, 53>>)}

\* the readings of the clock a timestamp is tested against
Clocks == {NowStart, NowStart + 1}

\* timestamps around the clock and around both ends of the accepted window,
\* written in UTC, with an offset, or not a date at all
TimestampTexts ==
    {[epoch |-> NowStart + d, frac |-> 3, zone |-> z] :
        d \in {0 - 31536002, 0 - 31536001, 0 - 31536000, 0 - 31535999, 0 - 31535998,
               0 - 1, 0, 1, 2, 299, 300, 301, 302, 303},
        z \in {"Z", "+01:00", "garbage"}}

\* shipment ids as their characters: "", "AB!", "ABCD", "ABCDE", "abcde",
\* "AB_C-1", "AB CDE", "AB123456789CD", "ab123456789cd", "SHIP-123456",
\* "SHIP-12345", "SHIP-" and 13 digits, "SHIP!", "A1234", "\u00c5BCDE",
\* "ABCD\n", 49, 50 and 51 times "A", 50 characters with a "!" in them
ShipmentIdTexts ==
    {<<>>, <<65, 66, 33>>, <<65, 66, 67, 68>>, <<65, 66, 67, 68, 69>>,
     <<97, 98, 99, 100, 101>>, <<65, 66, 95, 67, 45, 49>>, <<65, 66, 32, 67, 68, 69>>,
     <<65, 66>> \o Repeat(49, 9) \o <<67, 68>>, <<97, 98>> \o Repeat(49, 9) \o <<99, 100>>,
     <<83, 72, 73, 80, 45>> \o Repeat(49, 6), <<83, 72, 73, 80, 45>> \o Repeat(49, 5),
     <<83, 72, 73, 80, 45>> \o Repeat(49, 13), <<83, 72, 73, 80, 33>>,
     <<65, 49, 50, 51, 52>>, <<197, 66, 67, 68, 69>>, <<65, 66, 67, 68, 10>>,
     Repeat(65, 49), Repeat(65, 50), Repeat(65, 51), Repeat(65, 49) \o <<33>>}

Subject(fn, input, clock) ==
    [fn |-> fn, input |-> input, clock |-> clock, output |-> None]

InitValidators ==
    /\ store = {}
    /\ usedIds = {}
    /\ now = NowStart
    /\ pc = [r \in Reqs |-> "idle"]
    /\ op = [r \in Reqs |-> "none"]
    /\ args = [r \in Reqs |-> NoArgs]
    /\ local = [r \in Reqs |-> None]
    /\ resp = [r \in Reqs |-> None]
    /\ startedAfter = [r \in Reqs |-> {}]
    /\ queried = [r \in Reqs |-> None]
    /\ putItem = [r \in Reqs |-> None]
    /\ caught = [r \in Reqs |-> None]
    /\ sent = [r \in Reqs |-> <<>>]
    /\ profile = "healthy"
    /\ walk = NoWalk
    /\ walkSent = 0
    /\ subject \in {Subject("limit", t, NowStart) : t \in LimitTexts}
            \cup {Subject("timestamp", t, c) : t \in TimestampTexts, c \in Clocks}
            \cup {Subject("shipmentId", t, NowStart) : t \in ShipmentIdTexts}

handlerVars == <<store, usedIds, now, pc, op, args, local, resp, startedAfter, queried,
                 putItem, caught, sent, profile, walk, walkSent>>

\* GetEventsQuerySchema.safeParse({limit})
ApplyLimit ==
    /\ subject.fn = "limit" /\ subject.output = None
    /\ subject' = [subject EXCEPT
            !.output = Some(GetEventsQuerySchema([limit |-> subject.input,
                                                  startKey |-> None]))]
    /\ UNCHANGED handlerVars

\* validateEventTimestamp(timestamp) with the clock at subject.clock
ApplyTimestamp ==
    /\ subject.fn = "timestamp" /\ subject.output = None
    /\ subject' = [subject EXCEPT
            !.output = Some(validateEventTimestamp(subject.input, subject.clock))]
    /\ UNCHANGED handlerVars

\* validateShipmentIdFormat(id), and ShipmentEventParamsSchema on {shipmentId: id}
ApplyShipmentId ==
    /\ subject.fn = "shipmentId" /\ subject.output = None
    /\ subject' = [subject EXCEPT
            !.output = Some([format |-> validateShipmentIdFormat(subject.input),
                             params |-> ShipmentIdSchema(subject.input)])]
    /\ UNCHANGED handlerVars

NextValidators ==
    \/ ApplyLimit
    \/ ApplyTimestamp
    \/ ApplyShipmentId

SpecValidators == InitValidators /\ [][NextValidators]_vars

----------------------------------------------------------------------------
(* A client that pages through the history of one shipment: it sends the    *)
(* first request without startKey and then, as long as the answer says      *)
(* hasMore, the same request with the nextKey it was given.  walk.before    *)
(* holds the shipment's events as stored at its first request, walk.once    *)
(* the events its pages have returned, walk.again those returned again.     *)

\* More requests than a walk can need: one for every event there can be and
\* one for an empty last page
MaxWalkRequests == MaxInitItems + MaxReqs + 1

\* limit absent, "1", "2", "3", "100"
WalkLimits == {None, Some(<<49>>), Some(<<50>>), Some(<<51>>), Some(<<49, 48, 48>>)}

NewWalk(shipmentId, limit) ==
    [shipmentId |-> shipmentId, limit |-> limit, startKey |-> None, last |-> None,
     before |-> None, once |-> {}, again |-> {}]

\* The last answer said hasMore
WalkHasMore ==
    /\ walk.last # None
    /\ The(walk.last).statusCode = OK
    /\ The(The(walk.last).body.pagination).hasMore

WalkFinished == walk.last # None /\ ~WalkHasMore

InitTraversal ==
    /\ \E n \in 0..MaxInitItems :
        \E time \in [1..n -> ValidTimestamps] :
            store = {StoredBefore(2 * j, "SHIP-100000", time[j], "created") : j \in 1..n}
    /\ usedIds = {i.id : i \in store} \cup DrawnBefore(Cardinality(store))
    /\ now = NowStart
    /\ pc = [r \in Reqs |-> "idle"]
    /\ op = [r \in Reqs |-> "none"]
    /\ args = [r \in Reqs |-> NoArgs]
    /\ local = [r \in Reqs |-> None]
    /\ resp = [r \in Reqs |-> None]
    /\ startedAfter = [r \in Reqs |-> {}]
    /\ queried = [r \in Reqs |-> None]
    /\ putItem = [r \in Reqs |-> None]
    /\ caught = [r \in Reqs |-> None]
    /\ sent = [r \in Reqs |-> <<>>]
    /\ profile = "traversal"
    /\ subject = NoSubject
    /\ walk \in {NewWalk(s, l) : s \in Shipments, l \in WalkLimits}
    /\ walkSent = 0

\* The client sends a request when it has none answered yet or the last
\* answer said hasMore
ClientSends ==
    /\ ~WalkFinished
    /\ walkSent < MaxWalkRequests
    /\ walkSent' = walkSent + 1

\* One GET /shipments/{shipmentId}/events of the client, answered by the
\* getEventHistory handler
ClientRequest ==
    /\ ClientSends
    /\ LET answer == GetEventHistoryHandler(store, Some(walk.shipmentId),
                        [limit |-> walk.limit, startKey |-> walk.startKey], None)
           page == IF answer.statusCode = OK THEN The(answer.body.data) ELSE <<>>
           events == {page[j] : j \in DOMAIN page}
       IN  walk' = [walk EXCEPT
                !.last = Some(answer),
                !.startKey = IF answer.statusCode = OK
                             THEN The(answer.body.pagination).nextKey ELSE None,
                !.before = IF walk.last = None
                           THEN Some(Partition(store, walk.shipmentId)) ELSE @,
                !.once = @ \cup events,
                !.again = @ \cup (walk.once \cap events)]
    /\ UNCHANGED <<store, usedIds, now, pc, op, args, local, resp, startedAfter, queried,
                   putItem, caught, sent, profile, subject>>

NextTraversal == ClientRequest

\* The client goes on as long as it is told there is more
SpecTraversal == InitTraversal /\ [][NextTraversal]_vars /\ WF_walkSent(ClientSends)

\* The same client while writes are handled between its requests
NextTraversalWrites ==
    \/ ClientRequest
    \/ \E r \in Reqs : RecordEvent(r)
    \/ \E r \in Reqs : RecordEventPut(r)

SpecTraversalWrites == InitTraversal /\ [][NextTraversalWrites]_vars

----------------------------------------------------------------------------
(* What the claims speak of *)

StatusCode(r) == The(resp[r]).statusCode
Body(r) == The(resp[r]).body

Writes == {r \in Done : op[r] = "recordEvent"}
Latests == {r \in Done : op[r] = "getLatestEvent"}
Histories == {r \in Done : op[r] = "getEventHistory"}

ShipmentOf(r) == The(args[r].pathParameters)
FieldsOf(r) == The(args[r].body.fields)

\* The triple (shipmentId, status, timestamp) a write supplies
TripleOf(r) ==
    [shipmentId |-> ShipmentOf(r),
     status |-> The(FieldsOf(r).status),
     timestamp |-> The(FieldsOf(r).timestamp)]

\* The items of a table that carry a triple
WithTriple(table, triple) ==
    {i \in table : /\ i.shipmentId = triple.shipmentId
                   /\ i.status = triple.status
                   /\ i.timestamp = triple.timestamp}

\* Request r passed validation and none of its store calls failed
Served(r) == queried[r] # None /\ caught[r] = None

\* C1 (as claimed): a write that supplies the triple of an earlier write, one
\* that had answered 201 before it arrived, answers 409, and the table then
\* holds exactly one item with that triple.
C1_SecondWriteIsDuplicate ==
    \A r1, r2 \in Writes :
        ( /\ r1 \in startedAfter[r2]
          /\ StatusCode(r1) = CREATED
          /\ Served(r2)
          /\ TripleOf(r2) = TripleOf(r1) )
        => /\ StatusCode(r2) = CONFLICT
           /\ Cardinality(WithTriple(store, TripleOf(r2))) = 1

\* The events of a shipment, as the table held them when request r read it
Snapshot(r) == Partition(The(queried[r]), ShipmentOf(r))

\* C2 (as claimed): the event a latest-event request returns with 200 is one
\* of the shipment's stored events and no stored event of the shipment has a
\* later timestamp.
C2_LatestHasGreatestTimestamp ==
    \A r \in Latests :
        StatusCode(r) = OK
        => /\ The(Body(r).data) \in Snapshot(r)
           /\ \A e \in Snapshot(r) :
                  The(getTime(e.timestamp)) <= The(getTime(The(Body(r).data).timestamp))

\* C3 (as claimed): the event a write returns with 201 is an item of the
\* table, equal in id, timestamp, status, location, details and createdAt.
C3_ReturnedEventIsStored ==
    \A r \in Writes :
        StatusCode(r) = CREATED => The(Body(r).data) \in store

\* C4: two writes of one triple, each of which ran its existence check on a
\* table that did not yet hold the other's item, and whose puts did not fail,
\* both answer 201, and the table holds both items, two records of one triple.
C4_ConcurrentWritesBothPersist ==
    \A r1, r2 \in Writes :
        ( /\ r1 # r2
          /\ Served(r1) /\ Served(r2)
          /\ TripleOf(r1) = TripleOf(r2)
          /\ putItem[r1] # None /\ putItem[r2] # None
          /\ The(putItem[r1]) \notin The(queried[r2])
          /\ The(putItem[r2]) \notin The(queried[r1]) )
        => /\ StatusCode(r1) = CREATED /\ StatusCode(r2) = CREATED
           /\ The(putItem[r1]) # The(putItem[r2])
           /\ {The(putItem[r1]), The(putItem[r2])}
                \subseteq WithTriple(store, TripleOf(r1))

\* Two writes of one triple overlapped and both were persisted and answered 201
C4_Witness ==
    \E r1, r2 \in Writes :
        /\ r1 # r2
        /\ r1 \notin startedAfter[r2] /\ r2 \notin startedAfter[r1]
        /\ Served(r1) /\ Served(r2)
        /\ TripleOf(r1) = TripleOf(r2)
        /\ StatusCode(r1) = CREATED /\ StatusCode(r2) = CREATED
        /\ The(putItem[r1]) # The(putItem[r2])
        /\ {The(putItem[r1]), The(putItem[r2])} \subseteq store
        /\ Cardinality(WithTriple(store, TripleOf(r1))) >= 2

\* What a history request asked for and what it was answered
LimitOf(r) == The(GetEventsQuerySchema(args[r].query).limit)
StartKeyOf(r) == args[r].query.startKey
Page(r) == The(Body(r).data)
Pagination(r) == The(Body(r).pagination)

\* History request r2 resubmits the nextKey of r1, with no write in between
Follows(r2, r1) ==
    /\ r1 \in startedAfter[r2]
    /\ ShipmentOf(r2) = ShipmentOf(r1)
    /\ args[r2].query.limit = args[r1].query.limit
    /\ queried[r2] = queried[r1]
    /\ Pagination(r1).nextKey # None
    /\ StartKeyOf(r2) = Pagination(r1).nextKey

\* The walks through a shipment's history: from a request without startKey,
\* each next one resubmitting the nextKey before it, to a page with
\* hasMore = false
Chains ==
    {ch \in UNION {[1..n -> Histories] : n \in 1..MaxReqs} :
        /\ \A i \in DOMAIN ch : StatusCode(ch[i]) = OK
        /\ StartKeyOf(ch[1]) = None
        /\ \A i \in 1..(Len(ch) - 1) : Follows(ch[i + 1], ch[i])
        /\ ~Pagination(ch[Len(ch)]).hasMore}

RECURSIVE Pages(_)
Pages(ch) == IF ch = <<>> THEN <<>> ELSE Page(Head(ch)) \o Pages(Tail(ch))

\* C5: the pages of a walk through a shipment's history, with no write in
\* between, hold every stored event of the shipment exactly once.
C5_PagesCoverHistoryOnce ==
    \A ch \in Chains :
        LET all == Pages(ch)
        IN  /\ \A j \in DOMAIN all : all[j] \in Snapshot(ch[1])
            /\ \A e \in Snapshot(ch[1]) :
                   Cardinality({j \in DOMAIN all : all[j] = e}) = 1

\* limit=2 on 3 events: a page of 2 with a nextKey, then a page of 1
C5_Witness ==
    \E ch \in Chains :
        /\ Len(ch) = 2
        /\ LimitOf(ch[1]) = 2
        /\ Cardinality(Snapshot(ch[1])) = 3
        /\ Len(Page(ch[1])) = 2 /\ Pagination(ch[1]).hasMore
        /\ Len(Page(ch[2])) = 1

\* C6 (as claimed): a history page that holds the last event of the
\* shipment's partition has hasMore = false and no nextKey.
C6_ExhaustedPageHasNoMore ==
    \A r \in Histories :
        ( /\ StatusCode(r) = OK
          /\ \E j \in DOMAIN Page(r) :
                \A e \in Snapshot(r) : e.id <= Page(r)[j].id )
        => /\ ~Pagination(r).hasMore
           /\ Pagination(r).nextKey = None

\* The result the service handed the handler of history request r
ResultOf(r) ==
    The(getEventHistory(The(queried[r]), ShipmentOf(r), LimitOf(r), StartKeyOf(r),
                        None).value)

NoEventsFound(r) ==
    /\ StatusCode(r) = NOT_FOUND
    /\ Body(r).error = Some("No events found for shipment " \o ShipmentOf(r))

EmptyPage(r) ==
    /\ StatusCode(r) = OK
    /\ Page(r) = <<>>
    /\ ~Pagination(r).hasMore

\* C7 (as claimed): a history request with an empty result answers 404 when
\* it carried no startKey and 200 with empty data and hasMore = false when it
\* carried a startKey; one with a non-empty result answers 200.
C7_EmptyResultBySuppliedStartKey ==
    \A r \in Histories :
        Served(r) =>
            /\ (Len(ResultOf(r).events) = 0 /\ StartKeyOf(r) = None) => NoEventsFound(r)
            /\ (Len(ResultOf(r).events) = 0 /\ StartKeyOf(r) # None) => EmptyPage(r)
            /\ Len(ResultOf(r).events) > 0 => StatusCode(r) = OK

\* C7 (amended): a history request with an empty result answers 404 when it
\* carried no startKey or an empty one, and 200 with empty data and
\* hasMore = false when it carried a non-empty startKey; one with a non-empty
\* result answers 200.
C7_EmptyResultByNonEmptyStartKey ==
    \A r \in Histories :
        Served(r) =>
            LET supplied == StartKeyOf(r) # None /\ The(StartKeyOf(r)) # <<>>
            IN  /\ (Len(ResultOf(r).events) = 0 /\ ~supplied) => NoEventsFound(r)
                /\ (Len(ResultOf(r).events) = 0 /\ supplied) => EmptyPage(r)
                /\ Len(ResultOf(r).events) > 0 => StatusCode(r) = OK

\* A later page of a shipment that has events came back empty, with 200
C7_Witness ==
    \E r \in Histories :
        /\ Served(r)
        /\ StartKeyOf(r) # None /\ The(StartKeyOf(r)) # <<>>
        /\ Snapshot(r) # {}
        /\ Len(ResultOf(r).events) = 0
        /\ EmptyPage(r)

\* C8: no step removes or alters an item of the table: every item of the
\* table before a step is an item of the table after it.
C8_AppendOnly == [][store \subseteq store']_vars

\* A write has added its item to a partition that held another
C8_Witness ==
    \E r \in Writes :
        /\ StatusCode(r) = CREATED
        /\ The(putItem[r]) \in store
        /\ \E i \in store : /\ i.shipmentId = The(putItem[r]).shipmentId
                            /\ i.id # The(putItem[r]).id

\* C9: a history page answered with 200 holds at most limit events, in
\* non-decreasing order of timestamp.
C9_PageWithinLimitAndSorted ==
    \A r \in Histories :
        StatusCode(r) = OK =>
            /\ Len(Page(r)) <= LimitOf(r)
            /\ \A j, k \in DOMAIN Page(r) :
                   j < k => The(getTime(Page(r)[j].timestamp))
                                <= The(getTime(Page(r)[k].timestamp))

\* A page whose order of timestamps is the reverse of the order of the ids
C9_Witness ==
    \E r \in Histories :
        /\ StatusCode(r) = OK
        /\ \E j, k \in DOMAIN Page(r) :
               /\ j < k
               /\ Page(r)[j].id > Page(r)[k].id
               /\ The(getTime(Page(r)[j].timestamp)) < The(getTime(Page(r)[k].timestamp))

\* C10 (as claimed): a write answered with 201 stores and returns the fixed
\* description of its status when the request left details out, and the
\* request's details unchanged when it carried them.
C10_DetailsDefaultOrVerbatim ==
    \A r \in Writes :
        StatusCode(r) = CREATED =>
            LET expected == IF FieldsOf(r).details = None
                            THEN Some(SHIPMENT_STATUS_DESCRIPTIONS(The(FieldsOf(r).status)))
                            ELSE FieldsOf(r).details
            IN  /\ The(putItem[r]).details = expected
                /\ The(Body(r).data).details = expected

\* A request that one of the validations must turn away, told from what it
\* carries: its path parameters, its body, its limit
InvalidRequest(a, o) ==
    \/ a.pathParameters \in InvalidPathParameters
    \/ o = "recordEvent" /\ a.body \in InvalidBodies
    \/ o = "getEventHistory" /\ a.query.limit \in InvalidLimits

\* C11: a step in which an invalid request is handled ends the request with
\* 400, passes no command to the store and leaves the table as it was.
C11_InvalidRequestTouchesNoStore ==
    [][\A r \in Reqs :
         (pc[r] = "idle" /\ pc'[r] # "idle" /\ InvalidRequest(args'[r], op'[r]))
         => /\ pc'[r] = "done"
            /\ resp'[r] # None
            /\ The(resp'[r]).statusCode = BAD_REQUEST
            /\ sent'[r] = <<>>
            /\ store' = store]_vars

\* Invalid requests of all three operations have been answered 400, the
\* table holding events all the while
C11_Witness ==
    /\ store # {}
    /\ \E r1, r2 \in Done :
        /\ op[r1] = "recordEvent" /\ args[r1].body \in InvalidBodies
        /\ op[r2] = "getEventHistory" /\ args[r2].query.limit \in InvalidLimits
        /\ StatusCode(r1) = BAD_REQUEST /\ StatusCode(r2) = BAD_REQUEST
        /\ sent[r1] = <<>> /\ sent[r2] = <<>>

\* The fields of a request that violate a constraint
ViolatedFields(r) ==
    (IF args[r].pathParameters \in InvalidPathParameters THEN {"shipmentId"} ELSE {})
    \cup (IF op[r] = "recordEvent" /\ args[r].body.kind = "object"
          THEN LET errors == CreateEventSchema(FieldsOf(r))
               IN  {errors[j] : j \in DOMAIN errors}
          ELSE {})
    \cup (IF op[r] = "getEventHistory" /\ args[r].query.limit \in InvalidLimits
          THEN {"limit"} ELSE {})

\* The text a 400 response reports a field with
ReportText(r, field) ==
    CASE field = "shipmentId" -> "Invalid shipment ID"
      [] field = "limit" -> "limit: Limit must be between 1 and 100"
      [] OTHER -> field \o ": " \o ZodMessage(field, FieldsOf(r))

\* The 400 response of request r reports exactly the fields F
ReportsFields(r, F) ==
    LET in(field) == field \in F
        fields == SelectSeq(<<"shipmentId", "timestamp", "status", "location",
                              "details", "limit">>, in)
    IN  /\ StatusCode(r) = BAD_REQUEST
        /\ Body(r).error = Some("Validation failed")
        /\ Body(r).message =
              Some(Join([j \in DOMAIN fields |-> ReportText(r, fields[j])]))

\* C12 (as claimed): a request that violates the constraints of several
\* fields is answered 400 with one error for each violated field and no other.
C12_EveryViolatedFieldReported ==
    \A r \in Done :
        Cardinality(ViolatedFields(r)) >= 2 => ReportsFields(r, ViolatedFields(r))

\* C13 (as claimed): a write whose existence query or put fails with
\* ResourceNotFoundException answers 503 'Events table not found' and writes
\* no record.
C13_WriteTableMissingIs503 ==
    \A r \in Writes :
        caught[r] = Some(Error("ResourceNotFoundException"))
        => /\ StatusCode(r) = SERVICE_UNAVAILABLE
           /\ Body(r).error = Some("Events table not found")
           /\ putItem[r] = None

Reads == Latests \cup Histories

\* C14: a read whose catch block received an Error named
\* ResourceNotFoundException answers 503 'Events table not found', one named
\* ValidationException answers 400, and any other value answers 500.
C14_ReadFailureStatus ==
    \A r \in Reads :
        caught[r] # None =>
            LET error == The(caught[r])
            IN  /\ ~Body(r).success
                /\ (error.isError /\ error.name = "ResourceNotFoundException")
                    => /\ StatusCode(r) = SERVICE_UNAVAILABLE
                       /\ Body(r).error = Some("Events table not found")
                /\ (error.isError /\ error.name = "ValidationException")
                    => StatusCode(r) = BAD_REQUEST
                /\ ~(error.isError /\ error.name \in {"ResourceNotFoundException",
                                                       "ValidationException"})
                    => StatusCode(r) = INTERNAL_SERVER_ERROR

\* A history read has met a missing table and a latest read a thrown value
\* that is no Error
C14_Witness ==
    \E r1 \in Histories, r2 \in Latests :
        /\ caught[r1] = Some(Error("ResourceNotFoundException"))
        /\ StatusCode(r1) = SERVICE_UNAVAILABLE
        /\ caught[r2] # None /\ ~The(caught[r2]).isError
        /\ StatusCode(r2) = INTERNAL_SERVER_ERROR

\* C15: a read sends at most one query; a write sends one existence query
\* and then at most one put; a rejected command is the last one its request
\* sends, and the request's response reports the failure.
C15_NoRetries ==
    \A r \in Reqs :
        /\ op[r] \in {"getLatestEvent", "getEventHistory"}
            => sent[r] = <<>> \/ (Len(sent[r]) = 1 /\ sent[r][1].command = "Query")
        /\ op[r] = "recordEvent"
            => /\ Len(sent[r]) <= 2
               /\ Len(sent[r]) >= 1 => sent[r][1].command = "Query"
               /\ Len(sent[r]) = 2 => sent[r][2].command = "Put"
        /\ \A j \in DOMAIN sent[r] :
               sent[r][j].rejected
               => /\ j = Len(sent[r])
                  /\ r \in Done
                  /\ caught[r] # None
                  /\ ~Body(r).success
                  /\ Body(r).error # None

\* A write's put was rejected after its existence query had succeeded, and
\* the write has answered with the error
C15_Witness ==
    \E r \in Writes :
        /\ Len(sent[r]) = 2
        /\ ~sent[r][1].rejected /\ sent[r][2].rejected
        /\ ~Body(r).success

\* C16: a latest-event request answers 404 'No events found for shipment
\* <id>' exactly when its query succeeded and the shipment has no stored
\* event; when the shipment has events it answers 200 with one of them.
C16_LatestNotFoundIffEmpty ==
    \A r \in Latests :
        /\ StatusCode(r) = NOT_FOUND <=> (Served(r) /\ Snapshot(r) = {})
        /\ StatusCode(r) = NOT_FOUND
            => Body(r).error = Some("No events found for shipment " \o ShipmentOf(r))
        /\ (Served(r) /\ Snapshot(r) # {})
            => /\ StatusCode(r) = OK
               /\ The(Body(r).data) \in Snapshot(r)

\* One latest-event request found a shipment without events, another a
\* shipment with two
C16_Witness ==
    \E r1, r2 \in Latests :
        /\ Served(r1) /\ Snapshot(r1) = {} /\ StatusCode(r1) = NOT_FOUND
        /\ Served(r2) /\ Cardinality(Snapshot(r2)) >= 2 /\ StatusCode(r2) = OK

\* The step in which write r sends its existence query and is answered
CheckAnswered(r) ==
    /\ pc[r] = "idle" /\ pc'[r] # "idle"
    /\ op'[r] = "recordEvent"
    /\ sent'[r] # <<>>
    /\ ~sent'[r][1].rejected

\* C17: when the existence check of a write reports a match, that step ends
\* the request with 409 'Event with this shipment ID, status and timestamp
\* already exists', with no put sent and the table as it was.
C17_MatchAnswers409WithoutPut ==
    [][\A r \in Reqs :
         ( /\ CheckAnswered(r)
           /\ The(shippmentEventExist(store, The(args'[r].pathParameters),
                      The(The(args'[r].body.fields).status),
                      The(The(args'[r].body.fields).timestamp), None).value).exists )
         => /\ pc'[r] = "done"
            /\ The(resp'[r]).statusCode = CONFLICT
            /\ The(resp'[r]).body.error =
                  Some("Event with this shipment ID, status and timestamp already exists")
            /\ Len(sent'[r]) = 1
            /\ putItem'[r] = None
            /\ store' = store]_vars

\* A write was answered 409 after its existence query, the table holding the
\* matching event and no item of that write
C17_Witness ==
    \E r \in Writes :
        /\ StatusCode(r) = CONFLICT
        /\ sent[r] = <<Send("Query", None)>>
        /\ putItem[r] = None
        /\ WithTriple(The(queried[r]), TripleOf(r)) # {}
        /\ store = The(queried[r])

\* The stored records of shipment B
RecordsOf(table, B) == {i \in table : i.shipmentId = B}

\* C18: a step of a request leaves the records of every shipment other than
\* its own unchanged, and what a read or an existence check answers is what
\* it answers on the records of its own shipment alone.
C18_ShipmentsIndependent ==
    [][\A r \in Reqs :
         pc'[r] # pc[r] =>
            LET path == args'[r].pathParameters
                own == RecordsOf(store, The(path))
            IN  /\ \A B \in Shipments :
                       path # Some(B) => RecordsOf(store', B) = RecordsOf(store, B)
                /\ (pc[r] = "idle" /\ sent'[r] # <<>> /\ ~sent'[r][1].rejected)
                    => CASE op'[r] = "getLatestEvent" ->
                                resp'[r] = Some(GetLatestEventHandler(own, path, None))
                         [] op'[r] = "getEventHistory" ->
                                resp'[r] = Some(GetEventHistoryHandler(own, path,
                                                    args'[r].query, None))
                         [] op'[r] = "recordEvent" ->
                                (pc'[r] = "done") <=>
                                The(shippmentEventExist(own, The(path),
                                        The(The(args'[r].body.fields).status),
                                        The(The(args'[r].body.fields).timestamp),
                                        None).value).exists]_vars

\* One status and timestamp were written under two shipment ids, each write
\* answered 201, and the table holds both records
C18_Witness ==
    \E r1, r2 \in Writes :
        /\ StatusCode(r1) = CREATED /\ StatusCode(r2) = CREATED
        /\ ShipmentOf(r1) # ShipmentOf(r2)
        /\ FieldsOf(r1).status = FieldsOf(r2).status
        /\ FieldsOf(r1).timestamp = FieldsOf(r2).timestamp
        /\ {The(putItem[r1]), The(putItem[r2])} \subseteq store

\* C19: every request has exactly one response once it has returned and none
\* before; a response with success = true has status 200 or 201, data and no
\* error; one with success = false has an error and no data; pagination is
\* present exactly on the successful history responses.
C19_UniformEnvelope ==
    \A r \in Reqs :
        /\ resp[r] # None <=> r \in Done
        /\ r \in Done =>
            /\ Body(r).success <=> StatusCode(r) \in {OK, CREATED}
            /\ Body(r).success => (Body(r).data # None /\ Body(r).error = None)
            /\ ~Body(r).success => (Body(r).error # None /\ Body(r).data = None)
            /\ Body(r).pagination # None
                <=> (op[r] = "getEventHistory" /\ Body(r).success)

\* A write answered 201, and a history request was turned away with an error
C19_Witness ==
    \E r1, r2 \in Done :
        /\ op[r1] = "recordEvent" /\ StatusCode(r1) = CREATED
        /\ Body(r1).data # None /\ Body(r1).pagination = None
        /\ op[r2] = "getEventHistory" /\ ~Body(r2).success
        /\ Body(r2).error # None /\ Body(r2).pagination = None

\* The LastEvaluatedKey the store returned to history request r
LastEvaluatedKeyOf(r) ==
    Query(The(queried[r]), ShipmentOf(r),
          IF StartKeyOf(r) # None /\ The(StartKeyOf(r)) # <<>>
          THEN JSONParse(Base64Decode(The(StartKeyOf(r)))) ELSE None,
          LimitOf(r), None).LastEvaluatedKey

\* C20: in a history response with 200, hasMore is true exactly when a
\* nextKey is present, and exactly when the store returned a
\* LastEvaluatedKey for the query.
C20_HasMoreIffNextKeyIffContinuation ==
    \A r \in Histories :
        StatusCode(r) = OK =>
            /\ Pagination(r).hasMore <=> Pagination(r).nextKey # None
            /\ Pagination(r).hasMore <=> LastEvaluatedKeyOf(r) # None

\* A page with hasMore and a nextKey, and a page with neither
C20_Witness ==
    \E r1, r2 \in Histories :
        /\ StatusCode(r1) = OK /\ StatusCode(r2) = OK
        /\ Pagination(r1).hasMore /\ Pagination(r1).nextKey # None
        /\ ~Pagination(r2).hasMore /\ Pagination(r2).nextKey = None
        /\ Page(r2) # <<>>

----------------------------------------------------------------------------
(* Claims about the validators, under SpecValidators *)

\* C21: an absent limit yields 50; a supplied limit is accepted exactly when
\* its text is an integer n (an optional sign, then digits only) with
\* 1 <= n <= 100, and then n is the limit the store is queried with; every
\* other text is rejected.
C21_LimitAcceptedIffIntegerInRange ==
    (subject.fn = "limit" /\ subject.output # None) =>
        LET out == The(subject.output)
            text == The(subject.input)
            signed == Len(text) >= 1 /\ text[1] \in {43, 45}
            digits == IF signed THEN SubSeq(text, 2, Len(text)) ELSE text
            integer == digits # <<>> /\ \A i \in 1..Len(digits) : digits[i] \in 48..57
            n == IF text[1] = 45 THEN 0 - DigitsValue(digits, 1, 0)
                 ELSE DigitsValue(digits, 1, 0)
        IN  IF subject.input = None
            THEN out.success /\ out.limit = Some(50)
            ELSE /\ out.success <=> (integer /\ n >= 1 /\ n <= 100)
                 /\ out.success => out.limit = Some(n)

\* C22: validateEventTimestamp(t) read at the clock value now is true exactly
\* when t is a date and now - 365 days <= t <= now + 5 minutes, both ends
\* included; one second past the upper end it is false, and it is false for
\* a text that is no date.
C22_TimestampWindowInclusive ==
    (subject.fn = "timestamp" /\ subject.output # None) =>
        LET t == subject.input
            valid == The(subject.output)
        IN  /\ valid <=> /\ t.zone # "garbage"
                         /\ subject.clock - 31536000 <= t.epoch
                         /\ t.epoch <= subject.clock + 300
            /\ (t.zone # "garbage" /\ t.epoch = subject.clock + 300) => valid
            /\ (t.zone # "garbage" /\ t.epoch = subject.clock - 31536000) => valid
            /\ t.epoch = subject.clock + 301 => ~valid
            /\ t.zone = "garbage" => ~valid

\* The validator has accepted a timestamp at the upper end of the window
C22_Witness ==
    /\ subject.fn = "timestamp" /\ subject.output = Some(TRUE)
    /\ subject.input.epoch = subject.clock + 300
    /\ subject.clock = NowStart + 1

\* C23: validateShipmentIdFormat(id) is true exactly when id has one of the
\* three shapes (2 capitals, 9 digits, 2 capitals; "SHIP-" and 6 to 12
\* digits; 5 to 50 letters, digits, hyphens and underscores); it is false for
\* the empty string; and the path-parameter schema accepts an id exactly when
\* it has a shape and at most 50 characters, so never one longer than 50.
C23_ShipmentIdShapes ==
    (subject.fn = "shipmentId" /\ subject.output # None) =>
        LET id == subject.input
            out == The(subject.output)
            capital(i) == id[i] \in 65..90
            digit(i) == id[i] \in 48..57
            upu == /\ Len(id) = 13
                   /\ \A i \in {1, 2, 12, 13} : capital(i)
                   /\ \A i \in 3..11 : digit(i)
            ship == /\ Len(id) >= 11 /\ Len(id) <= 17
                    /\ SubSeq(id, 1, 5) = <<83, 72, 73, 80, 45>>
                    /\ \A i \in 6..Len(id) : digit(i)
            generic == /\ Len(id) >= 5 /\ Len(id) <= 50
                       /\ \A i \in 1..Len(id) :
                            id[i] \in (65..90) \cup (97..122) \cup (48..57) \cup {45, 95}
        IN  /\ out.format <=> (upu \/ ship \/ generic)
            /\ id = <<>> => ~out.format
            /\ out.params <=> (out.format /\ Len(id) <= 50)
            /\ Len(id) > 50 => ~out.params

\* The validator has accepted an id with an underscore and a hyphen
C23_Witness ==
    /\ subject.fn = "shipmentId"
    /\ subject.input = <<65, 66, 95, 67, 45, 49>>
    /\ subject.output = Some([format |-> TRUE, params |-> TRUE])

----------------------------------------------------------------------------
(* Claims about pagination and the cursor, under Spec *)

\* C24 (as claimed): the pages of a walk through a shipment's history, put
\* one after the other, are in ascending order of timestamp, across the page
\* boundaries as well as within each page.
C24_TraversalAscendingAcrossPages ==
    \A ch \in Chains :
        LET all == Pages(ch)
        IN  \A j, k \in DOMAIN all :
                j < k => The(getTime(all[j].timestamp)) <= The(getTime(all[k].timestamp))

\* Keys of either shipment whose ids are written with one to four digits
CursorKeys ==
    {Key(s, i) : s \in Shipments, i \in {0, 1, 7, 9, 10, 42, 99, 100, 255, 1000}}

\* The nextKey made from a key decodes to that key
CursorRoundTrip ==
    \A k \in CursorKeys : JSONParse(Base64Decode(Base64Encode(JSONStringify(k)))) = Some(k)

\* C25: the nextKey of a history response decodes to the LastEvaluatedKey
\* the store returned, and a request that resubmits it as startKey gets the
\* events that follow that key in the partition, as many as its limit
\* allows, beginning with the first one after the key.
C25_CursorRoundTrip ==
    /\ CursorRoundTrip
    /\ \A r \in Histories :
        (StatusCode(r) = OK /\ Pagination(r).nextKey # None) =>
            /\ LastEvaluatedKeyOf(r) # None
            /\ JSONParse(Base64Decode(The(Pagination(r).nextKey))) = LastEvaluatedKeyOf(r)
    /\ \A r1, r2 \in Histories :
        (StatusCode(r1) = OK /\ StatusCode(r2) = OK /\ Follows(r2, r1)) =>
            LET k == The(LastEvaluatedKeyOf(r1))
                after == {e \in Snapshot(r2) : e.id > k.id}
                next == {e \in after :
                            Cardinality({f \in after : f.id < e.id}) < LimitOf(r2)}
            IN  /\ k.shipmentId = ShipmentOf(r2)
                /\ \A e \in Snapshot(r1) :
                       (\E j \in DOMAIN Page(r1) : Page(r1)[j] = e) => e.id <= k.id
                /\ {Page(r2)[j] : j \in DOMAIN Page(r2)} = next
    /\ \A r1, r2 \in Histories :
        ( /\ StatusCode(r1) = OK
          /\ r1 \in startedAfter[r2]
          /\ Pagination(r1).nextKey # None
          /\ StartKeyOf(r2) = Pagination(r1).nextKey
          /\ ShipmentOf(r2) = ShipmentOf(r1)
          /\ profile = "healthy" ) => StatusCode(r2) = OK

\* A page of one event with a nextKey, then the page of the event after it
C25_Witness ==
    \E r1, r2 \in Histories :
        /\ StatusCode(r1) = OK /\ StatusCode(r2) = OK /\ Follows(r2, r1)
        /\ Len(Page(r1)) = 1 /\ Len(Page(r2)) = 1
        /\ Page(r2)[1].id > Page(r1)[1].id
        /\ \A e \in Snapshot(r2) : ~(Page(r1)[1].id < e.id /\ e.id < Page(r2)[1].id)

----------------------------------------------------------------------------
(* Claims about failures of the store, under Spec *)

\* C26: the response to a store failure is determined by the operation and
\* by whether the caught value is an Error and what its name is: the
\* response is the one the same handler gives for the same failure with its
\* message blanked, so two failures of the same name with different messages
\* get the same response.
C26_ResponseIgnoresErrorMessage ==
    /\ \A r \in Done :
        caught[r] # None =>
            LET blank == [The(caught[r]) EXCEPT !.message = ""]
            IN  resp[r] = Some(CASE op[r] = "recordEvent" -> RecordEventCatch(blank)
                                 [] op[r] = "getLatestEvent" -> GetLatestEventCatch(blank)
                                 [] op[r] = "getEventHistory" -> GetEventHistoryCatch(blank))
    /\ \A r1, r2 \in Done :
        ( /\ op[r1] = op[r2]
          /\ caught[r1] # None /\ caught[r2] # None
          /\ The(caught[r1]).isError = The(caught[r2]).isError
          /\ The(caught[r1]).name = The(caught[r2]).name ) => resp[r1] = resp[r2]

\* Two latest-event reads failed with ValidationException, with two messages
C26_Witness ==
    \E r1, r2 \in Latests :
        /\ caught[r1] # None /\ caught[r2] # None
        /\ The(caught[r1]).name = "ValidationException"
        /\ The(caught[r2]).name = "ValidationException"
        /\ The(caught[r1]).message # The(caught[r2]).message
        /\ resp[r1] = resp[r2]
        /\ StatusCode(r1) = BAD_REQUEST

----------------------------------------------------------------------------
(* Claims about the write protocol, under Spec *)

\* C27: a request that waits for its put or has sent one is a write whose
\* shipmentId and body passed their schemas and whose timestamp passed the
\* bounds test; it sent exactly one existence query before, which was
\* answered and reported no match for the request's status and timestamp in
\* the request's shipment; the put is its second command and its only put.
C27_PutOnlyAfterChecksAndOneQuery ==
    \A r \in Reqs :
        (pc[r] = "create" \/ \E j \in DOMAIN sent[r] : sent[r][j].command = "Put") =>
            LET fields == The(args[r].body.fields)
                part == The(queried[r])
                first == CHOOSE i \in part : \A j \in part : i.id <= j.id
            IN  /\ op[r] = "recordEvent"
                /\ ShipmentEventParamsSchema(args[r].pathParameters)
                /\ args[r].body.kind = "object"
                /\ CreateEventSchema(fields) = <<>>
                /\ \E clock \in NowStart..now :
                       validateEventTimestamp(The(fields.timestamp), clock)
                /\ sent[r] # <<>> /\ sent[r][1] = Send("Query", None)
                /\ \A j \in DOMAIN sent[r] : sent[r][j].command = "Put" <=> j = 2
                /\ Len(sent[r]) <= 2
                /\ queried[r] # None
                /\ \A i \in part : i.shipmentId = ShipmentOf(r)
                /\ part # {} => ~ /\ first.status = The(fields.status)
                                  /\ first.timestamp = The(fields.timestamp)

\* A write was answered 201 after a query that evaluated a stored event and a
\* put, in that order
C27_Witness ==
    \E r \in Writes :
        /\ StatusCode(r) = CREATED
        /\ sent[r] = <<Send("Query", None), Send("Put", None)>>
        /\ The(queried[r]) # {}
        /\ putItem[r] # None

----------------------------------------------------------------------------
(* Claims about the latest event and about failed writes, under Spec *)

C29_FailedPutMapping ==
    [][\A r \in Reqs :
         (pc[r] = "create" /\ pc'[r] = "done" /\ sent'[r][Len(sent'[r])].rejected) =>
            LET error == The(caught'[r])
                answer == The(resp'[r])
                named(n) == error.isError /\ error.name = n
            IN  /\ caught'[r] # None
                /\ ~answer.body.success
                /\ answer.body.data = None
                /\ named("ConditionalCheckFailedException") =>
                      /\ answer.statusCode = CONFLICT
                      /\ answer.body.error = Some("Event with this ID already exists")
                /\ named("ValidationException") =>
                      /\ answer.statusCode = BAD_REQUEST
                      /\ answer.body.error = Some("Invalid data format")
                /\ ~(named("ConditionalCheckFailedException") \/ named("ValidationException")) =>
                      /\ answer.statusCode = INTERNAL_SERVER_ERROR
                      /\ answer.body.error =
                            Some("Internal server error occurred while creating event")
                /\ store' = store
                /\ putItem'[r] = None]_vars

\* One write's put failed with ConditionalCheckFailedException and was
\* answered 409, another's with a value that is no Error and was answered
\* 500; the table holds what it held before them
C29_Witness ==
    \E r1, r2 \in Writes :
        /\ sent[r1] = <<Send("Query", None), [command |-> "Put", rejected |-> TRUE]>>
        /\ sent[r2] = sent[r1]
        /\ The(caught[r1]).name = "ConditionalCheckFailedException"
        /\ StatusCode(r1) = CONFLICT
        /\ ~The(caught[r2]).isError
        /\ StatusCode(r2) = INTERNAL_SERVER_ERROR
        /\ putItem[r1] = None /\ putItem[r2] = None
        /\ store = The(queried[r1])


\* C30: the step that handles a history request with a valid shipmentId and
\* limit and a startKey that is not the cursor of any key sends no command to
\* the store, answers 500 'Internal server error occurred while retrieving
\* event history' with success = false, and leaves the table as it was; a
\* request whose startKey is the empty string is answered as the same
\* request without startKey.
C30_MalformedStartKeyFailsBeforeQuery ==
    [][\A r \in Reqs :
         ( /\ pc[r] = "idle" /\ pc'[r] = "done"
           /\ op'[r] = "getEventHistory"
           /\ ShipmentEventParamsSchema(args'[r].pathParameters)
           /\ GetEventsQuerySchema(args'[r].query).success
           /\ args'[r].query.startKey # None ) =>
            LET startKey == The(args'[r].query.startKey)
                answer == The(resp'[r])
                wellFormed == \E s \in Shipments, i \in 0..MaxId :
                                 startKey = Base64Encode(JSONStringify(Key(s, i)))
            IN  /\ (startKey # <<>> /\ ~wellFormed) =>
                      /\ sent'[r] = <<>>
                      /\ queried'[r] = None
                      /\ caught'[r] # None
                      /\ The(caught'[r]).name \notin {"ResourceNotFoundException",
                                                     "ValidationException"}
                      /\ answer.statusCode = INTERNAL_SERVER_ERROR
                      /\ ~answer.body.success
                      /\ answer.body.error =
                            Some("Internal server error occurred while retrieving event history")
                      /\ store' = store
                /\ (startKey = <<>> /\ sent'[r] = <<Send("Query", None)>>) =>
                      /\ resp'[r] = Some(GetEventHistoryHandler(store, args'[r].pathParameters,
                                            [args'[r].query EXCEPT !.startKey = None], None))
                      /\ store' = store]_vars

\* A history request with a startKey that decodes to no JSON text was
\* answered 500 without a query
C30_Witness ==
    \E r \in Histories :
        /\ StartKeyOf(r) = Some(<<0, 0, 0, 0>>)
        /\ sent[r] = <<>>
        /\ StatusCode(r) = INTERNAL_SERVER_ERROR
        /\ caught[r] = Some(Error("SyntaxError"))

----------------------------------------------------------------------------
(* Claims about a client paging through a history *)

\* The sort key a startKey stands at: 0 before the first request
WalkCursorId(startKey) ==
    IF startKey = None THEN 0 ELSE The(JSONParse(Base64Decode(The(startKey)))).id

\* C31: with no write going on, a client that keeps resubmitting the nextKey
\* it was given is eventually answered without hasMore = true, after at most
\* one request more than the shipment has events: with
\* hasMore = false when the shipment has events (with the 404 of the first
\* page when it has none); and every answer with hasMore = true carries a
\* nextKey that stands strictly after the startKey of its request and at or
\* after a stored event that lies after that startKey.
C31_PaginationTerminates ==
    /\ <>WalkFinished
    /\ [](walk.before # None => walkSent <= Cardinality(The(walk.before)) + 1)
    /\ [](WalkFinished /\ The(walk.before) # {} =>
            /\ The(walk.last).statusCode = OK
            /\ The(The(walk.last).body.pagination).hasMore = FALSE)
    /\ [][(walk' # walk /\ WalkHasMore') =>
            /\ walk'.startKey # None
            /\ WalkCursorId(walk'.startKey) > WalkCursorId(walk.startKey)
            /\ \E e \in Partition(store, walk.shipmentId) :
                  /\ e.id > WalkCursorId(walk.startKey)
                  /\ e.id <= WalkCursorId(walk'.startKey)]_vars

\* A walk with limit 1 over three events has ended with hasMore = false,
\* having been given every event
C31_Witness ==
    /\ walk.limit = Some(<<49>>)
    /\ WalkFinished
    /\ Cardinality(The(walk.before)) = 3
    /\ walk.once = The(walk.before)
    /\ The(walk.last).statusCode = OK
    /\ The(walk.last).body.data = Some(<<>>)


----------------------------------------------------------------------------
(* Claims about what requests do to the table, under Spec *)

\* C33: the step that handles a latest-event or a history request leaves the
\* table as it was, and every event in its response is an item the table
\* holds under the requested shipmentId.
C33_ReadsChangeNothingAndAreSound ==
    [][\A r \in Reqs :
         ( /\ pc[r] = "idle" /\ pc'[r] # "idle"
           /\ op'[r] \in {"getLatestEvent", "getEventHistory"} ) =>
            LET answer == The(resp'[r])
                data == The(answer.body.data)
                returned == IF answer.statusCode # OK THEN {}
                            ELSE IF op'[r] = "getLatestEvent" THEN {data}
                            ELSE {data[j] : j \in DOMAIN data}
            IN  /\ store' = store
                /\ pc'[r] = "done"
                /\ \A e \in returned :
                      /\ e \in store
                      /\ e.shipmentId = The(args'[r].pathParameters)]_vars

\* A history read was answered with two stored events of its shipment, the
\* table holding an event of another shipment too
C33_Witness ==
    \E r \in Histories :
        /\ StatusCode(r) = OK /\ Len(Page(r)) = 2
        /\ \A j \in DOMAIN Page(r) : Page(r)[j] \in Partition(store, ShipmentOf(r))
        /\ \E i \in store : i.shipmentId # ShipmentOf(r)


\* C34: every step that ends a write with 201 adds exactly one item to the
\* table, under a key no item had, and removes or changes none; every step
\* that ends a write with 400 or 409, and every other step, leaves the table
\* as it was.  So the table always holds the items it held at the start and
\* one item more for every write answered 201.
C34_WriteAccounting ==
    /\ [][LET created == {r \in Reqs : /\ pc[r] # "done" /\ pc'[r] = "done"
                                        /\ op'[r] = "recordEvent"
                                        /\ The(resp'[r]).statusCode = CREATED}
          IN  /\ store \subseteq store'
              /\ Cardinality(store') = Cardinality(store) + Cardinality(created)
              /\ \A i \in store' \ store : \A j \in store : KeyOf(i) # KeyOf(j)
              /\ \A r \in created : putItem'[r] # None /\ The(putItem'[r]) \in store' \ store
              /\ \A r \in Reqs :
                    ( /\ pc[r] # "done" /\ pc'[r] = "done"
                      /\ The(resp'[r]).statusCode \in {BAD_REQUEST, CONFLICT} )
                    => store' = store]_vars
    /\ [](LET written == {The(putItem[r]) : r \in {w \in Writes : StatusCode(w) = CREATED}}
              before == store \ written
          IN  /\ written \subseteq store
              /\ Cardinality(written) = Cardinality({w \in Writes : StatusCode(w) = CREATED})
              /\ Cardinality(store) = Cardinality(before) + Cardinality(written)
              /\ \A i \in before : i.createdAt = toISOString(NowStart - 1)
              /\ \A i \in written : i.createdAt # toISOString(NowStart - 1))

\* Two writes of the same shipment were answered 201 and one stored item
\* more is there for each
C34_Witness ==
    \E r1, r2 \in Writes :
        /\ r1 # r2
        /\ StatusCode(r1) = CREATED /\ StatusCode(r2) = CREATED
        /\ ShipmentOf(r1) = ShipmentOf(r2)
        /\ putItem[r1] # putItem[r2]
        /\ {The(putItem[r1]), The(putItem[r2])} \subseteq store
        /\ Cardinality(store) = 2 + Cardinality({i \in store :
                                        i.createdAt = toISOString(NowStart - 1)})

====
